---- MODULE Spec2Model ----
(***************************************************************************)
(* Model of three adapter classes of qiskit-aqua:                          *)
(*   PyQuanteDriver   qiskit/chemistry/drivers/pyquanted/pyquantedriver.py *)
(*   HDF5Driver       qiskit/chemistry/drivers/hdf5d/hdf5driver.py         *)
(*   VariationalForm  qiskit/aqua/components/variational_forms/            *)
(*                    variational_form.py                                  *)
(*                                                                         *)
(* A Python str is a sequence of symbols.  A symbol is one character, or a *)
(* literal word of the source that contains neither ';' nor a newline and  *)
(* is kept in one piece ("angstrom", "PYQUANTE").  A Python value is a    *)
(* record [t |-> its type, v |-> its payload].                             *)
(***************************************************************************)
EXTENDS Integers, Sequences, FiniteSets, TLC

VARIABLES drv, hdf, fs, heap, vf

vars == <<drv, hdf, fs, heap, vf>>

-----------------------------------------------------------------------------
(* Bounds                                                                  *)

MaxStrLen == 3
MaxAtoms == 2
MaxRuns == 2
MaxPathLen == 3
MaxForms == 3

-----------------------------------------------------------------------------
(* Python values and strings                                               *)

NL == "<nl>"
SEMI == ";"

PyStr(s) == [t |-> "str", v |-> s]
PyInt(n) == [t |-> "int", v |-> n]
PyFloat(m, e) == [t |-> "float", v |-> <<m, e>>]
PyList(l) == [t |-> "list", v |-> l]
PyNone == [t |-> "NoneType", v |-> <<>>]
EnumMember(cls, val) == [t |-> cls, v |-> val]

RECURSIVE SeqsUpTo(_, _)
SeqsUpTo(S, n) ==
    IF n = 0 THEN {<<>>}
    ELSE LET shorter == SeqsUpTo(S, n - 1)
         IN  shorter \cup {Append(s, c) : s \in shorter, c \in S}

\* sep.join(parts)
RECURSIVE Join(_, _)
Join(sep, parts) ==
    IF Len(parts) = 0 THEN <<>>
    ELSE IF Len(parts) = 1 THEN parts[1]
    ELSE parts[1] \o sep \o Join(sep, Tail(parts))

\* s.replace(old, new) for a one-symbol old
RECURSIVE Replace(_, _, _)
Replace(s, old, new) ==
    IF Len(s) = 0 THEN <<>>
    ELSE (IF Head(s) = old THEN new ELSE <<Head(s)>>) \o Replace(Tail(s), old, new)

\* the pieces of s between the symbols of seps, as str.split does
RECURSIVE SplitAcc(_, _, _, _)
SplitAcc(s, seps, cur, acc) ==
    IF Len(s) = 0 THEN Append(acc, cur)
    ELSE IF Head(s) \in seps THEN SplitAcc(Tail(s), seps, <<>>, Append(acc, cur))
    ELSE SplitAcc(Tail(s), seps, Append(cur, Head(s)), acc)

Split(s, seps) == SplitAcc(s, seps, <<>>, <<>>)

Digit(n) == <<"0", "1", "2", "3", "4", "5", "6", "7", "8", "9">>[n + 1]

RECURSIVE NatStr(_)
NatStr(n) == IF n < 10 THEN <<Digit(n)>> ELSE Append(NatStr(n \div 10), Digit(n % 10))

IntStr(n) == IF n < 0 THEN <<"-">> \o NatStr(-n) ELSE NatStr(n)

RECURSIVE Zeros(_)
Zeros(n) == IF n <= 0 THEN <<>> ELSE <<"0">> \o Zeros(n - 1)

\* repr of the float m * 10^e with a one-digit mantissa m
FloatStr(m, e) ==
    LET sign == IF m < 0 THEN <<"-">> ELSE <<>>
        d == Digit(IF m < 0 THEN -m ELSE m)
    IN  IF m = 0 THEN <<"0", ".", "0">>
        ELSE IF e < -4 THEN
            sign \o <<d, "e", "-">> \o (IF -e < 10 THEN <<"0">> ELSE <<>>) \o NatStr(-e)
        ELSE IF e < 0 THEN sign \o <<"0", ".">> \o Zeros(-e - 1) \o <<d>>
        ELSE IF e < 16 THEN sign \o <<d>> \o Zeros(e) \o <<".", "0">>
        ELSE sign \o <<d, "e", "+">> \o NatStr(e)

\* '{}'.format(x)
RECURSIVE Format(_)
RECURSIVE FormatItems(_)
Format(x) ==
    CASE x.t = "str" -> x.v
      [] x.t = "int" -> IntStr(x.v)
      [] x.t = "float" -> FloatStr(x.v[1], x.v[2])
      [] x.t = "NoneType" -> <<"None">>
      [] x.t = "list" -> <<"[">> \o FormatItems(x.v) \o <<"]">>
      [] OTHER -> <<x.t, ".", x.v.name>>

FormatItems(l) ==
    IF Len(l) = 0 THEN <<>>
    ELSE (IF Head(l).t = "str" THEN <<"'">> \o Head(l).v \o <<"'">> ELSE Format(Head(l)))
         \o (IF Len(l) > 1 THEN <<",", " ">> ELSE <<>>) \o FormatItems(Tail(l))

-----------------------------------------------------------------------------
(* Enumerations                                                            *)

BasisType ==
    [BSTO3G |-> "sto3g", B631G |-> "6-31g", B631GSS |-> "6-31g**"]

UnitsType ==
    [ANGSTROM |-> "angstrom", BOHR |-> "bohr"]

HFMethodType ==
    [RHF |-> "rhf", ROHF |-> "rohf", UHF |-> "uhf"]

EnumClasses ==
    [BasisType |-> BasisType, UnitsType |-> UnitsType, HFMethodType |-> HFMethodType]

Member(cls, name) == EnumMember(cls, [name |-> name, value |-> <<EnumClasses[cls][name]>>])

Members(cls) == {Member(cls, n) : n \in DOMAIN EnumClasses[cls]}

IsEnumMember(x) == x.t \in DOMAIN EnumClasses

-----------------------------------------------------------------------------
(* Exceptions                                                              *)

NoExc == [type |-> "None", msg |-> <<>>]

Raise(type, msg) == [type |-> type, msg |-> msg]

-----------------------------------------------------------------------------
(* PyQuanteDriver                                                          *)

FieldNames ==
    <<"atoms", "units", "charge", "multiplicity", "basis", "hf_method", "tol", "maxiters">>

FieldSet == {FieldNames[i] : i \in 1..Len(FieldNames)}

INPUT_SCHEMA_NoMinimum ==
    [atoms        |-> [type |-> "string", keys |-> {}, enum |-> {}, minimum |-> 0],
     units        |-> [type |-> "string", keys |-> {"enum"},
                       enum |-> {<<UnitsType.ANGSTROM>>, <<UnitsType.BOHR>>}, minimum |-> 0],
     charge       |-> [type |-> "integer", keys |-> {}, enum |-> {}, minimum |-> 0],
     multiplicity |-> [type |-> "integer", keys |-> {}, enum |-> {}, minimum |-> 0],
     basis        |-> [type |-> "string", keys |-> {"enum"},
                       enum |-> {<<BasisType.BSTO3G>>, <<BasisType.B631G>>,
                                 <<BasisType.B631GSS>>}, minimum |-> 0],
     hf_method    |-> [type |-> "string", keys |-> {"enum"},
                       enum |-> {<<HFMethodType.RHF>>, <<HFMethodType.ROHF>>,
                                 <<HFMethodType.UHF>>}, minimum |-> 0],
     tol          |-> [type |-> "number", keys |-> {}, enum |-> {}, minimum |-> 0],
     maxiters     |-> [type |-> "integer", keys |-> {}, enum |-> {}, minimum |-> 0]]

INPUT_SCHEMA ==
    [atoms        |-> [type |-> "string", keys |-> {}, enum |-> {}, minimum |-> 0],
     units        |-> [type |-> "string", keys |-> {"enum"},
                       enum |-> {<<UnitsType.ANGSTROM>>, <<UnitsType.BOHR>>}, minimum |-> 0],
     charge       |-> [type |-> "integer", keys |-> {}, enum |-> {}, minimum |-> 0],
     multiplicity |-> [type |-> "integer", keys |-> {}, enum |-> {}, minimum |-> 0],
     basis        |-> [type |-> "string", keys |-> {"enum"},
                       enum |-> {<<BasisType.BSTO3G>>, <<BasisType.B631G>>,
                                 <<BasisType.B631GSS>>}, minimum |-> 0],
     hf_method    |-> [type |-> "string", keys |-> {"enum"},
                       enum |-> {<<HFMethodType.RHF>>, <<HFMethodType.ROHF>>,
                                 <<HFMethodType.UHF>>}, minimum |-> 0],
     tol          |-> [type |-> "number", keys |-> {}, enum |-> {}, minimum |-> 0],
     maxiters     |-> [type |-> "integer", keys |-> {"minimum"}, enum |-> {}, minimum |-> 1]]

\* the JSON-schema type of a Python value
TypeMatches(x, type) ==
    CASE type = "string" -> x.t = "str"
      [] type = "integer" -> x.t = "int"
      [] type = "number" -> x.t \in {"int", "float"}
      [] OTHER -> FALSE

Conforms(x, prop) ==
    /\ TypeMatches(x, prop.type)
    /\ "enum" \in prop.keys => x.v \in prop.enum
    /\ "minimum" \in prop.keys => x.v >= prop.minimum

\* validate(args_dict, schema_dict): the properties of the schema that the
\* arguments violate, in declaration order; a configuration error names the
\* first one
RECURSIVE Violations(_, _, _)
Violations(args_dict, schema_dict, i) ==
    IF i > Len(FieldNames) THEN <<>>
    ELSE (IF Conforms(args_dict[FieldNames[i]], schema_dict[FieldNames[i]])
          THEN <<>> ELSE <<FieldNames[i]>>)
         \o Violations(args_dict, schema_dict, i + 1)

validate(args_dict, schema_dict) ==
    LET bad == Violations(args_dict, schema_dict, 1)
    IN  IF bad = <<>> THEN NoExc
        ELSE Raise("QiskitChemistryError", <<"Invalid value for ", bad[1]>>)

\* importlib.util.find_spec('pyquante2') returns a spec, returns None or raises
FindSpecOutcomes == {"spec", "None", "raises"}

err_msg == <<"PyQuante2 is not installed. See https://github.com/rpmuller/pyquante2">>

check_valid(find_spec) ==
    IF find_spec = "spec" THEN NoExc
    ELSE Raise("QiskitChemistryError", err_msg)

EmptyObj == [k \in {} |-> PyNone]

SetAttr(self, name, x) ==
    [k \in (DOMAIN self) \cup {name} |-> IF k = name THEN x ELSE self[k]]

\* the frame of a call of __init__: the instance, the local variables, the
\* exception in flight and the statements executed so far
Frame0(kwargs) ==
    [self |-> EmptyObj, loc |-> kwargs, exc |-> NoExc, steps |-> <<>>]

Step(f, name) == [f EXCEPT !.steps = Append(@, name)]

init_check_valid(f, find_spec) ==
    IF f.exc # NoExc THEN f
    ELSE [Step(f, <<"_check_valid">>) EXCEPT !.exc = check_valid(find_spec)]

init_check_atoms(f) ==
    IF f.exc # NoExc THEN f
    ELSE IF f.loc.atoms.t # "list" /\ f.loc.atoms.t # "str"
         THEN [Step(f, <<"isinstance">>) EXCEPT
                  !.exc = Raise("QiskitChemistryError",
                                <<"Invalid atom input for PYQUANTE Driver '">>
                                \o Format(f.loc.atoms) \o <<"'">>)]
         ELSE Step(f, <<"isinstance">>)

StrItems(l) == [i \in 1..Len(l) |-> l[i].v]

init_normalize_NoReplace(f) ==
    IF f.exc # NoExc THEN f
    ELSE IF f.loc.atoms.t = "list"
         THEN IF \E i \in 1..Len(f.loc.atoms.v) : f.loc.atoms.v[i].t # "str"
              THEN [Step(f, <<"normalize">>) EXCEPT
                       !.exc = Raise("TypeError", <<"sequence item: expected str instance">>)]
              ELSE [Step(f, <<"normalize">>) EXCEPT
                       !.loc.atoms = PyStr(Join(<<SEMI>>, StrItems(f.loc.atoms.v)))]
         ELSE Step(f, <<"normalize">>)

init_normalize(f) ==
    IF f.exc # NoExc THEN f
    ELSE IF f.loc.atoms.t = "list"
         THEN IF \E i \in 1..Len(f.loc.atoms.v) : f.loc.atoms.v[i].t # "str"
              THEN [Step(f, <<"normalize">>) EXCEPT
                       !.exc = Raise("TypeError", <<"sequence item: expected str instance">>)]
              ELSE [Step(f, <<"normalize">>) EXCEPT
                       !.loc.atoms = PyStr(Join(<<SEMI>>, StrItems(f.loc.atoms.v)))]
         ELSE [Step(f, <<"normalize">>) EXCEPT
                  !.loc.atoms = PyStr(Replace(f.loc.atoms.v, NL, <<SEMI>>))]

\* name = name.value
init_value(f, name) ==
    IF f.exc # NoExc THEN f
    ELSE IF IsEnumMember(f.loc[name])
         THEN [Step(f, <<"value", name>>) EXCEPT !.loc[name] = PyStr(f.loc[name].v.value)]
         ELSE [Step(f, <<"value", name>>) EXCEPT
                  !.exc = Raise("AttributeError", <<"object has no attribute 'value'">>)]

init_validate(f) ==
    IF f.exc # NoExc THEN f
    ELSE [Step(f, <<"validate">>) EXCEPT !.exc = validate(f.loc, INPUT_SCHEMA)]

init_super(f) ==
    IF f.exc # NoExc THEN f ELSE Step(f, <<"super().__init__">>)

RECURSIVE init_assign(_, _)
init_assign(f, i) ==
    IF f.exc # NoExc \/ i > Len(FieldNames) THEN f
    ELSE init_assign([Step(f, <<"assign", FieldNames[i]>>) EXCEPT
                         !.self = SetAttr(@, FieldNames[i], f.loc[FieldNames[i]])], i + 1)

init_enum_values(f) ==
    init_value(init_value(init_value(f, "units"), "basis"), "hf_method")

PyQuanteDriver_init_LibraryLate(kwargs, find_spec) ==
    init_assign(init_super(init_validate(init_enum_values(init_normalize(
        init_check_valid(init_check_atoms(Frame0(kwargs)), find_spec))))), 1)

PyQuanteDriver_init_AssignEarly(kwargs, find_spec) ==
    init_super(init_validate(init_assign(init_enum_values(init_normalize(init_check_atoms(
        init_check_valid(Frame0(kwargs), find_spec)))), 1)))

PyQuanteDriver_init(kwargs, find_spec) ==
    init_assign(init_super(init_validate(init_enum_values(init_normalize(init_check_atoms(
        init_check_valid(Frame0(kwargs), find_spec)))))), 1)

-----------------------------------------------------------------------------
(* The integral-computation delegate and PyQuanteDriver.run                *)

Drivers == {1, 2}

NoDriver ==
    [state |-> "none", kwargs |-> <<>>, find_spec |-> "spec", self |-> EmptyObj,
     exc |-> NoExc, steps |-> <<>>, calls |-> <<>>]

\* d = PyQuanteDriver(**kwargs), in an environment where find_spec behaves
\* as given
Construct(d, kwargs, find_spec) ==
    /\ drv[d].state = "none"
    /\ LET f == PyQuanteDriver_init(kwargs, find_spec)
       IN  drv' = [drv EXCEPT ![d] =
                      [state |-> IF f.exc = NoExc THEN "constructed" ELSE "raised",
                       kwargs |-> kwargs, find_spec |-> find_spec, self |-> f.self,
                       exc |-> f.exc, steps |-> f.steps, calls |-> <<>>]]
    /\ UNCHANGED <<hdf, fs, heap, vf>>

\* the keyword arguments run passes to compute_integrals
RunKwargs(self) == [k \in FieldSet |-> self[k]]

RECURSIVE CfgLines(_, _)
CfgLines(self, i) ==
    IF i > Len(FieldNames) THEN <<<<>>>>
    ELSE <<<<FieldNames[i], "=">> \o Format(self[FieldNames[i]])>> \o CfgLines(self, i + 1)

\* compute_integrals(**kwargs): a new molecule object, or a failure of the
\* delegated computation
compute_integrals(kwargs, id) ==
    [id |-> id, made_by |-> "compute_integrals", arg |-> kwargs, loaded |-> FALSE,
     origin_driver_name |-> <<>>, origin_driver_config |-> <<>>]

DelegateOutcomes == {"returns", "raises"}

run_NormalizingAtoms(d) ==
    /\ drv[d].state = "constructed"
    /\ Len(drv[d].calls) < MaxRuns
    /\ \E outcome \in DelegateOutcomes :
          LET self == [drv[d].self EXCEPT !.atoms = PyStr(Replace(@.v, NL, <<SEMI>>))]
          IN  IF outcome = "raises"
              THEN /\ drv' = [drv EXCEPT ![d].self = self,
                                         ![d].calls =
                                 Append(@, [kwargs |-> RunKwargs(self), result |-> 0,
                                            exc |-> Raise("DelegateError", <<>>)])]
                   /\ heap' = heap
              ELSE LET q_mol == compute_integrals(RunKwargs(self), Len(heap) + 1)
                   IN  /\ heap' = Append(heap,
                                    [q_mol EXCEPT
                                        !.origin_driver_name = <<"PYQUANTE">>,
                                        !.origin_driver_config = Join(<<NL>>, CfgLines(self, 1))])
                       /\ drv' = [drv EXCEPT ![d].self = self,
                                             ![d].calls =
                                     Append(@, [kwargs |-> q_mol.arg, result |-> q_mol.id,
                                                exc |-> NoExc])]
    /\ UNCHANGED <<hdf, fs, vf>>

\* d.run(): a failure of the delegate propagates unmodified
run(d) ==
    /\ drv[d].state = "constructed"
    /\ Len(drv[d].calls) < MaxRuns
    /\ \E outcome \in DelegateOutcomes :
          IF outcome = "raises"
          THEN /\ drv' = [drv EXCEPT ![d].calls =
                             Append(@, [kwargs |-> RunKwargs(drv[d].self), result |-> 0,
                                        exc |-> Raise("DelegateError", <<>>)])]
               /\ heap' = heap
          ELSE LET q_mol == compute_integrals(RunKwargs(drv[d].self), Len(heap) + 1)
               IN  /\ heap' = Append(heap,
                                [q_mol EXCEPT
                                    !.origin_driver_name = <<"PYQUANTE">>,
                                    !.origin_driver_config = Join(<<NL>>, CfgLines(drv[d].self, 1))])
                   /\ drv' = [drv EXCEPT ![d].calls =
                                 Append(@, [kwargs |-> q_mol.arg, result |-> q_mol.id,
                                            exc |-> NoExc])]
    /\ UNCHANGED <<hdf, fs, vf>>

\* Arguments of the constructions explored: for every field its valid values,
\* values of the wrong type or outside the schema, and for the enumerated
\* fields a member of another enum, a plain string and None
AtomsSamples ==
    {PyStr(<<"H", SEMI, " ", "H">>), PyStr(<<"H", NL, "H">>),
     PyList(<<PyStr(<<"H">>), PyStr(<<"H">>)>>), PyList(<<PyStr(<<"H", NL, "H">>)>>),
     PyList(<<PyStr(<<"H">>), PyInt(1)>>), PyNone, PyInt(5)}

UnitsSamples ==
    Members("UnitsType") \cup {Member("BasisType", "BSTO3G"), PyStr(<<"angstrom">>), PyNone}

BasisSamples ==
    {Member("BasisType", "BSTO3G"), Member("BasisType", "B631GSS"),
     Member("HFMethodType", "RHF"), PyStr(<<"sto3g">>)}

HFMethodSamples ==
    {Member("HFMethodType", "RHF"), Member("HFMethodType", "UHF"),
     Member("UnitsType", "BOHR"), PyStr(<<"bogus">>)}

ChargeSamples == {PyInt(0), PyStr(<<"0">>)}

MultiplicitySamples == {PyInt(1), PyFloat(1, 0)}

TolSamples == {PyFloat(1, -8), PyFloat(0, 0), PyFloat(-1, -8), PyInt(1), PyStr(<<"1e-08">>)}

MaxitersSamples == {PyInt(100), PyInt(1), PyInt(0), PyInt(-1), PyFloat(5, -1)}

KwargsSamples ==
    [atoms : AtomsSamples, units : UnitsSamples, charge : ChargeSamples,
     multiplicity : MultiplicitySamples, basis : BasisSamples,
     hf_method : HFMethodSamples, tol : TolSamples, maxiters : MaxitersSamples]

ConstructAny(d) ==
    /\ drv[d].state = "none"
    /\ \E kwargs \in KwargsSamples, find_spec \in FindSpecOutcomes :
          Construct(d, kwargs, find_spec)

\* The atoms inputs of bounded size: every string over AtomChars, and every
\* list of short strings over AtomChars
AtomChars == {"H", SEMI, NL}

AtomsInputs ==
    {PyStr(str) : str \in SeqsUpTo(AtomChars, MaxStrLen)}
    \cup {PyList(l) : l \in SeqsUpTo({PyStr(str) : str \in SeqsUpTo(AtomChars, 1)}, MaxAtoms)}

\* the defaults of the keyword arguments of __init__
DefaultKwargs(atoms) ==
    [atoms |-> atoms, units |-> Member("UnitsType", "ANGSTROM"), charge |-> PyInt(0),
     multiplicity |-> PyInt(1), basis |-> Member("BasisType", "BSTO3G"),
     hf_method |-> Member("HFMethodType", "RHF"), tol |-> PyFloat(1, -8),
     maxiters |-> PyInt(100)]

ConstructAtoms(d) ==
    /\ drv[d].state = "none"
    /\ \E atoms \in AtomsInputs : Construct(d, DefaultKwargs(atoms), "spec")

-----------------------------------------------------------------------------
(* os.path on POSIX and the file system                                    *)

SEP == "/"
PARENT == ".."

\* the current directory of the process, its directories, and the paths
\* that may be regular files; a name is a sequence of symbols
getcwd == <<SEP, "c">>

Root == <<>>

Dirs == {Root, <<<<"c">>>>, <<<<"w">>>>, <<<<"c">>, <<"w">>>>}

FileCandidates ==
    {<<<<"m">>>>, <<<<"w">>, <<"m">>>>, <<<<"c">>, <<"m">>>>, <<<<"c">>, <<"w">>, <<"m">>>>}

isabs(path) == Len(path) > 0 /\ path[1] = SEP

join(a, b) ==
    IF isabs(b) THEN b
    ELSE IF Len(a) = 0 \/ a[Len(a)] = SEP THEN a \o b
    ELSE a \o <<SEP>> \o b

\* the loop of normpath over the components
RECURSIVE NormComps(_, _, _)
NormComps(comps, new_comps, initial_slashes) ==
    IF Len(comps) = 0 THEN new_comps
    ELSE LET comp == Head(comps)
         IN  IF comp = <<>> THEN NormComps(Tail(comps), new_comps, initial_slashes)
             ELSE IF \/ comp # <<PARENT>>
                     \/ (initial_slashes = 0 /\ Len(new_comps) = 0)
                     \/ (Len(new_comps) > 0 /\ new_comps[Len(new_comps)] = <<PARENT>>)
             THEN NormComps(Tail(comps), Append(new_comps, comp), initial_slashes)
             ELSE IF Len(new_comps) > 0
             THEN NormComps(Tail(comps), SubSeq(new_comps, 1, Len(new_comps) - 1),
                            initial_slashes)
             ELSE NormComps(Tail(comps), new_comps, initial_slashes)

normpath(path) ==
    IF Len(path) = 0 THEN <<".">>
    ELSE LET initial_slashes ==
                 IF ~isabs(path) THEN 0
                 ELSE IF /\ Len(path) >= 2 /\ path[2] = SEP
                         /\ ~(Len(path) >= 3 /\ path[3] = SEP)
                 THEN 2 ELSE 1
             joined == Join(<<SEP>>, NormComps(Split(path, {SEP}), <<>>, initial_slashes))
             result == (IF initial_slashes = 2 THEN <<SEP, SEP>>
                        ELSE IF initial_slashes = 1 THEN <<SEP>> ELSE <<>>) \o joined
         IN  IF Len(result) = 0 THEN <<".">> ELSE result

abspath(path) ==
    IF isabs(path) THEN normpath(path) ELSE normpath(join(getcwd, path))

\* the node a path names: the kernel walks the components from the root or
\* from the current directory
RECURSIVE Walk(_, _, _)
Walk(comps, cur, files) ==
    IF Len(comps) = 0 THEN [kind |-> "dir", node |-> cur]
    ELSE LET comp == Head(comps)
         IN  IF comp = <<>> THEN Walk(Tail(comps), cur, files)
             ELSE IF comp = <<PARENT>>
             THEN Walk(Tail(comps), IF Len(cur) = 0 THEN cur ELSE SubSeq(cur, 1, Len(cur) - 1),
                       files)
             ELSE IF Append(cur, comp) \in Dirs THEN Walk(Tail(comps), Append(cur, comp), files)
             ELSE IF Append(cur, comp) \in files /\ Len(comps) = 1
             THEN [kind |-> "file", node |-> Append(cur, comp)]
             ELSE [kind |-> "missing", node |-> cur]

isfile(path, files) ==
    /\ Len(path) > 0
    /\ Walk(Split(path, {SEP}), IF isabs(path) THEN Root ELSE <<<<"c">>>>, files).kind = "file"

-----------------------------------------------------------------------------
(* HDF5Driver                                                              *)

PathSyms == {SEP, PARENT, "w", "m"}

HDF5Inputs == {PyNone} \cup {PyStr(path) : path \in SeqsUpTo(PathSyms, MaxPathLen)}

WorkPaths ==
    {PyNone, PyStr(<<SEP, "w">>), PyStr(<<"w">>), PyStr(<<>>), PyStr(<<PARENT>>)}

NoRun ==
    [work_path |-> PyNone, hdf5_file |-> <<>>, exc |-> NoExc, constructed |-> 0,
     molecule |-> <<>>]

NoHDF5Driver ==
    [state |-> "none", hdf5_input |-> <<>>, work_path |-> PyNone, runs |-> 0, last |-> NoRun]

HDF5Driver_init(hdf5_input) ==
    /\ hdf.state = "none"
    /\ hdf' = [hdf EXCEPT !.state = "constructed",
                          !.hdf5_input = IF hdf5_input = PyNone THEN <<"molecule.hdf5">>
                                         ELSE hdf5_input.v,
                          !.work_path = PyNone]
    /\ UNCHANGED <<drv, fs, heap, vf>>

set_work_path(new_work_path) ==
    /\ hdf.state = "constructed"
    /\ hdf.work_path # new_work_path
    /\ hdf' = [hdf EXCEPT !.work_path = new_work_path]
    /\ UNCHANGED <<drv, fs, heap, vf>>

\* the value of hdf5_file when run reaches the isfile test
hdf5_file_AlwaysJoined(self) ==
    IF self.work_path # PyNone
    THEN abspath(join(self.work_path.v, self.hdf5_input))
    ELSE self.hdf5_input

hdf5_file(self) ==
    IF self.work_path # PyNone /\ ~isabs(self.hdf5_input)
    THEN abspath(join(self.work_path.v, self.hdf5_input))
    ELSE self.hdf5_input

\* QMolecule(filename) and its load
QMolecule(filename) ==
    [made_by |-> "QMolecule", arg |-> filename, loaded |-> FALSE]

LoadOutcomes == {"returns", "raises"}

HDF5Driver_run_Unchecked ==
    /\ hdf.state = "constructed"
    /\ hdf.runs < MaxRuns
    /\ \E outcome \in LoadOutcomes :
          LET file == hdf5_file(hdf)
              this == [NoRun EXCEPT !.work_path = hdf.work_path, !.hdf5_file = file]
          IN  IF outcome = "raises"
              THEN hdf' = [hdf EXCEPT !.runs = @ + 1,
                              !.last = [this EXCEPT !.exc = Raise("LoadError", <<>>),
                                                    !.constructed = 1]]
              ELSE hdf' = [hdf EXCEPT !.runs = @ + 1,
                              !.last = [this EXCEPT
                                           !.constructed = 1,
                                           !.molecule = <<[QMolecule(file) EXCEPT
                                                              !.loaded = TRUE]>>]]
    /\ UNCHANGED <<drv, fs, heap, vf>>

HDF5Driver_run ==
    /\ hdf.state = "constructed"
    /\ hdf.runs < MaxRuns
    /\ \E outcome \in LoadOutcomes :
          LET file == hdf5_file(hdf)
              this == [NoRun EXCEPT !.work_path = hdf.work_path, !.hdf5_file = file]
          IN  IF ~isfile(file, fs)
              THEN hdf' = [hdf EXCEPT !.runs = @ + 1,
                              !.last = [this EXCEPT
                                           !.exc = Raise("LookupError",
                                                         <<"HDF5 file not found: ">> \o file)]]
              ELSE IF outcome = "raises"
              THEN hdf' = [hdf EXCEPT !.runs = @ + 1,
                              !.last = [this EXCEPT !.exc = Raise("LoadError", <<>>),
                                                    !.constructed = 1]]
              ELSE hdf' = [hdf EXCEPT !.runs = @ + 1,
                              !.last = [this EXCEPT
                                           !.constructed = 1,
                                           !.molecule = <<[QMolecule(file) EXCEPT
                                                              !.loaded = TRUE]>>]]
    /\ UNCHANGED <<drv, fs, heap, vf>>

-----------------------------------------------------------------------------
(* VariationalForm                                                         *)

Forms == 1..MaxForms

\* the operations VariationalForm declares abstract
AbstractMethods == {"__init__", "construct_circuit"}

\* a class: VariationalForm itself (it overrides nothing) or a subclass, with
\* the abstract operations it overrides and whether its constructor runs the
\* constructor of VariationalForm
Classes ==
    {c \in [overrides : SUBSET AbstractMethods, calls_super : BOOLEAN] :
        c.calls_super => "__init__" \in c.overrides}

NoForm == [state |-> "none", cls |-> <<>>, obj |-> EmptyObj, exc |-> NoExc]

VariationalForm_init(self) ==
    SetAttr(SetAttr(SetAttr(SetAttr(self,
        "_num_parameters", 0), "_num_qubits", 0), "_bounds", <<>>),
        "_support_parameterized_circuit", FALSE)

\* the abstract operations a class has left: ABCMeta refuses to instantiate
\* a class that has any
abstractmethods_None(cls) == {}

abstractmethods(cls) == AbstractMethods \ cls.overrides

\* cls()
Instantiate(i, cls) ==
    /\ vf[i].state = "none"
    /\ IF abstractmethods(cls) # {}
       THEN vf' = [vf EXCEPT ![i] =
                      [NoForm EXCEPT !.state = "raised", !.cls = <<cls>>,
                                     !.exc = Raise("TypeError",
                                                   <<"Can't instantiate abstract class">>)]]
       ELSE vf' = [vf EXCEPT ![i] =
                      [NoForm EXCEPT !.state = "instance", !.cls = <<cls>>,
                                     !.obj = IF cls.calls_super
                                             THEN VariationalForm_init(EmptyObj)
                                             ELSE EmptyObj]]
    /\ UNCHANGED <<drv, hdf, fs, heap>>

\* form.support_parameterized_circuit = new_value
set_support_parameterized_circuit(i, new_value) ==
    /\ vf[i].state = "instance"
    /\ vf' = [vf EXCEPT ![i].obj = SetAttr(@, "_support_parameterized_circuit", new_value)]
    /\ vf' # vf
    /\ UNCHANGED <<drv, hdf, fs, heap>>

Init ==
    /\ drv = [d \in Drivers |-> NoDriver]
    /\ heap = <<>>
    /\ hdf = NoHDF5Driver
    /\ fs = {}
    /\ vf = [i \in Forms |-> NoForm]

\* the same, over any set of regular files
InitFiles ==
    /\ drv = [d \in Drivers |-> NoDriver]
    /\ heap = <<>>
    /\ hdf = NoHDF5Driver
    /\ fs \in SUBSET FileCandidates
    /\ vf = [i \in Forms |-> NoForm]

\* one PyQuanteDriver: any construction, then calls of run
Next ==
    \/ ConstructAny(1)
    \/ run(1)

Spec == Init /\ [][Next]_vars

\* two PyQuanteDrivers constructed from atoms inputs, the other arguments
\* defaulted
NextAtoms == \E d \in Drivers : ConstructAtoms(d)

SpecAtoms == Init /\ [][NextAtoms]_vars

\* one HDF5Driver over a file system
NextHDF5 ==
    \/ \E hdf5_input \in HDF5Inputs : HDF5Driver_init(hdf5_input)
    \/ \E new_work_path \in WorkPaths : set_work_path(new_work_path)
    \/ HDF5Driver_run

SpecHDF5 == InitFiles /\ [][NextHDF5]_vars

\* instantiations of VariationalForm and of its subclasses
NextForms ==
    \/ \E i \in Forms, cls \in Classes : Instantiate(i, cls)
    \/ \E i \in Forms, new_value \in BOOLEAN : set_support_parameterized_circuit(i, new_value)

SpecForms == Init /\ [][NextForms]_vars

-----------------------------------------------------------------------------
(* Properties of PyQuanteDriver                                            *)

Attempted(d) == drv[d].state # "none"

\* atoms is a string, or a list of strings
AtomsValid(atoms) ==
    \/ atoms.t = "str"
    \/ atoms.t = "list" /\ \A i \in 1..Len(atoms.v) : atoms.v[i].t = "str"

DeclaredEnum == [units |-> "UnitsType", basis |-> "BasisType", hf_method |-> "HFMethodType"]

OutOfEnum(kwargs) ==
    \E name \in DOMAIN DeclaredEnum : kwargs[name] \notin Members(DeclaredEnum[name])

\* C1: a construction whose units, basis or hf_method is outside the field's
\* declared enum, with valid atoms and the library available, fails with a
\* QiskitChemistryError and produces no driver, whatever the form of the
\* out-of-enum value.
C1_OutOfEnumIsConfigurationError ==
    \A d \in Drivers :
        (/\ Attempted(d)
         /\ drv[d].find_spec = "spec"
         /\ AtomsValid(drv[d].kwargs.atoms)
         /\ OutOfEnum(drv[d].kwargs))
        => /\ drv[d].state = "raised"
           /\ drv[d].exc.type = "QiskitChemistryError"
           /\ DOMAIN drv[d].self = {}

CheckOrder ==
    <<<<"_check_valid">>, <<"isinstance">>, <<"normalize">>, <<"value", "units">>,
      <<"value", "basis">>, <<"value", "hf_method">>, <<"validate">>>>

\* C2: the checks of a construction run in the order library availability,
\* atoms type, normalization, enum conversion, schema validation, and stop at
\* the first that fails: without the library the error is the missing
\* dependency error whatever the other arguments are; with the library and an
\* atoms value that is neither a list nor a string the error cites that value
\* and neither normalization nor validation has run.
C2_ChecksInOrder ==
    \A d \in Drivers :
        Attempted(d) =>
            /\ \A i \in 1..Len(drv[d].steps) :
                  i <= Len(CheckOrder) => drv[d].steps[i] = CheckOrder[i]
            /\ drv[d].state = "raised" => Len(drv[d].steps) <= Len(CheckOrder)
            /\ drv[d].find_spec # "spec" =>
                  /\ drv[d].state = "raised"
                  /\ drv[d].exc = Raise("QiskitChemistryError", err_msg)
                  /\ drv[d].steps = <<<<"_check_valid">>>>
            /\ (drv[d].find_spec = "spec" /\ drv[d].kwargs.atoms.t \notin {"list", "str"}) =>
                  /\ drv[d].state = "raised"
                  /\ drv[d].exc.type = "QiskitChemistryError"
                  /\ drv[d].exc.msg = <<"Invalid atom input for PYQUANTE Driver '">>
                                      \o Format(drv[d].kwargs.atoms) \o <<"'">>
                  /\ drv[d].steps = <<<<"_check_valid">>, <<"isinstance">>>>

\* the library is missing, atoms is invalid and a field is invalid too
C2_Witness ==
    \E d \in Drivers :
        /\ drv[d].state = "raised"
        /\ drv[d].find_spec = "None"
        /\ drv[d].kwargs.atoms = PyNone
        /\ drv[d].kwargs.units = PyNone
        /\ drv[d].kwargs.maxiters = PyInt(0)

\* a list of per-atom strings: no element holds a separator
PerAtomList(atoms) ==
    /\ atoms.t = "list"
    /\ \A i \in 1..Len(atoms.v) :
          /\ atoms.v[i].t = "str"
          /\ \A j \in 1..Len(atoms.v[i].v) : atoms.v[i].v[j] \notin {SEMI, NL}

\* the ordered sequence of atoms an input describes
AtomsOf(atoms) ==
    IF atoms.t = "list" THEN StrItems(atoms.v) ELSE Split(atoms.v, {SEMI, NL})

\* C3: two valid atoms inputs (a list of per-atom strings, or a string with
\* atoms separated by semicolons or newlines) that describe the same ordered
\* sequence of atoms are stored as the same string.
C3_SameAtomsSameString ==
    \A d1, d2 \in Drivers :
        (/\ drv[d1].state = "constructed"
         /\ drv[d2].state = "constructed"
         /\ drv[d1].kwargs.atoms.t = "str" \/ PerAtomList(drv[d1].kwargs.atoms)
         /\ drv[d2].kwargs.atoms.t = "str" \/ PerAtomList(drv[d2].kwargs.atoms)
         /\ AtomsOf(drv[d1].kwargs.atoms) = AtomsOf(drv[d2].kwargs.atoms))
        => drv[d1].self.atoms = drv[d2].self.atoms

\* a list and a newline-separated string with the same two atoms
C3_Witness ==
    /\ drv[1].state = "constructed"
    /\ drv[2].state = "constructed"
    /\ drv[1].kwargs.atoms = PyList(<<PyStr(<<"H">>), PyStr(<<"H">>)>>)
    /\ drv[2].kwargs.atoms = PyStr(<<"H", NL, "H">>)
    /\ drv[1].self.atoms = PyStr(<<"H", SEMI, "H">>)

SuccessfulCalls(d) == {i \in 1..Len(drv[d].calls) : drv[d].calls[i].result # 0}

\* the lines of the configuration string the claim describes
RECURSIVE ExpectedLines(_, _)
ExpectedLines(self, i) ==
    IF i > Len(FieldNames) THEN <<>>
    ELSE <<<<FieldNames[i], "=">> \o Format(self[FieldNames[i]])>> \o ExpectedLines(self, i + 1)

\* C6: every successful run returns the object of the delegate, named
\* "PYQUANTE", whose configuration string has one line name=value per field
\* in the order of FieldNames, then a trailing blank line, with the values
\* stored at construction, which are also the arguments of the delegate.
C6_ProvenanceOneFieldPerLine ==
    \A d \in Drivers : \A i \in SuccessfulCalls(d) :
        LET q_mol == heap[drv[d].calls[i].result]
        IN  /\ q_mol.made_by = "compute_integrals"
            /\ q_mol.origin_driver_name = <<"PYQUANTE">>
            /\ Split(q_mol.origin_driver_config, {NL})
                   = ExpectedLines(drv[d].self, 1) \o <<<<>>>>
            /\ q_mol.arg = [k \in FieldSet |-> drv[d].self[k]]

\* C7: a construction either succeeds with all eight fields set, or raises
\* with no field of the instance set.
C7_AllOrNothing ==
    \A d \in Drivers :
        /\ drv[d].state = "constructed" =>
              DOMAIN drv[d].self = FieldSet /\ drv[d].exc = NoExc
        /\ drv[d].state = "raised" =>
              DOMAIN drv[d].self = {} /\ drv[d].exc # NoExc

\* the last check, schema validation, is the one that failed
C7_Witness ==
    \E d \in Drivers :
        /\ drv[d].state = "raised"
        /\ drv[d].steps[Len(drv[d].steps)] = <<"validate">>
        /\ DOMAIN drv[d].self = {}

IsPositive(x) ==
    \/ x.t = "int" /\ x.v > 0
    \/ x.t = "float" /\ x.v[1] > 0

IsNumber(x) == x.t \in {"int", "float"}

\* C8 as stated: the stored tolerance is a positive real and the stored
\* iteration cap a positive integer; a tolerance that is zero or negative, or
\* a cap below 1, makes the construction fail.
C8_TolAndMaxitersPositive ==
    \A d \in Drivers :
        drv[d].state = "constructed" =>
            /\ IsPositive(drv[d].self.tol)
            /\ drv[d].self.maxiters.t = "int" /\ drv[d].self.maxiters.v >= 1

\* C8 amended: the stored tolerance is a number of any sign and the stored
\* iteration cap an integer of at least 1; a cap below 1 produces no driver,
\* and is a QiskitChemistryError when the construction reaches validation.
C8_MaxitersPositiveTolNumber ==
    \A d \in Drivers :
        /\ drv[d].state = "constructed" =>
              /\ IsNumber(drv[d].self.tol)
              /\ drv[d].self.maxiters.t = "int" /\ drv[d].self.maxiters.v >= 1
        /\ (Attempted(d) /\ drv[d].kwargs.maxiters.t = "int" /\ drv[d].kwargs.maxiters.v < 1) =>
              /\ drv[d].state = "raised"
              /\ drv[d].steps[Len(drv[d].steps)] = <<"validate">> =>
                    drv[d].exc.type = "QiskitChemistryError"

\* an iteration cap of 0 is the only invalid argument
C8_Witness ==
    \E d \in Drivers :
        /\ drv[d].state = "raised"
        /\ drv[d].kwargs.maxiters = PyInt(0)
        /\ drv[d].kwargs.tol = PyFloat(1, -8)
        /\ drv[d].steps[Len(drv[d].steps)] = <<"validate">>
        /\ drv[d].exc = Raise("QiskitChemistryError", <<"Invalid value for ", "maxiters">>)

\* C9: run leaves the eight fields as stored at construction, every run passes
\* the same arguments and stamps the same configuration string, and each
\* successful run returns the object made for that call.
C9_ConfigurationImmutable ==
    /\ [][\A d \in Drivers :
             drv[d].state = "constructed" =>
                 drv'[d].state = "constructed" /\ drv'[d].self = drv[d].self]_vars
    /\ [](\A d \in Drivers :
             /\ \A i \in 1..Len(drv[d].calls) :
                   drv[d].calls[i].kwargs = [k \in FieldSet |-> drv[d].self[k]]
             /\ \A i, j \in SuccessfulCalls(d) :
                   /\ heap[drv[d].calls[i].result].origin_driver_config
                          = heap[drv[d].calls[j].result].origin_driver_config
                   /\ i # j => drv[d].calls[i].result # drv[d].calls[j].result)

\* a failing run followed by a successful one, on atoms given as a list
C9_Witness ==
    \E d \in Drivers :
        /\ Len(drv[d].calls) = 2
        /\ drv[d].calls[1].result = 0
        /\ drv[d].calls[2].result # 0
        /\ drv[d].kwargs.atoms.t = "list"

-----------------------------------------------------------------------------
(* Properties of HDF5Driver                                                *)

\* C4: when the path run resolves is not an existing regular file, run fails
\* with a LookupError and constructs no molecule object; a molecule object is
\* constructed and loaded only for a path that is an existing regular file.
C4_MissingFileIsLookupError ==
    hdf.runs > 0 =>
        /\ ~isfile(hdf.last.hdf5_file, fs) =>
              /\ hdf.last.exc.type = "LookupError"
              /\ hdf.last.constructed = 0
              /\ hdf.last.molecule = <<>>
        /\ hdf.last.constructed > 0 => isfile(hdf.last.hdf5_file, fs)
        /\ hdf.last.molecule # <<>> =>
              /\ hdf.last.molecule[1] =
                     [made_by |-> "QMolecule", arg |-> hdf.last.hdf5_file, loaded |-> TRUE]
              /\ hdf.last.exc = NoExc

\* a work directory is set, files exist, and the resolved path is none of them
C4_Witness ==
    /\ hdf.runs > 0
    /\ hdf.last.work_path = PyStr(<<SEP, "w">>)
    /\ hdf.hdf5_input = <<"w">>
    /\ fs = FileCandidates
    /\ hdf.last.exc = Raise("LookupError", <<"HDF5 file not found: ", SEP, "w", SEP, "w">>)

NonEmptyComps(path) == SelectSeq(Split(path, {SEP}), LAMBDA comp : comp # <<>>)

\* the directory reached from the root by the components, ".." going up
RECURSIVE Climb(_, _)
Climb(comps, at) ==
    IF Len(comps) = 0 THEN at
    ELSE IF Head(comps) = <<PARENT>>
    THEN Climb(Tail(comps), IF Len(at) = 0 THEN at ELSE SubSeq(at, 1, Len(at) - 1))
    ELSE Climb(Tail(comps), Append(at, Head(comps)))

\* the absolute form of the work directory joined with a relative path
AbsoluteUnder(work_path, path) ==
    LET from == IF Len(work_path) > 0 /\ work_path[1] = SEP THEN <<>>
                ELSE NonEmptyComps(getcwd)
    IN  <<SEP>> \o Join(<<SEP>>, Climb(from \o NonEmptyComps(work_path) \o NonEmptyComps(path),
                                      <<>>))

\* C5: the path run checks and loads is the absolute form of the work
\* directory joined with the input path when a work directory is set at the
\* time of the call and the input path is relative, and the input path
\* exactly as given in every other case.
C5_ResolvedPath ==
    hdf.runs > 0 =>
        hdf.last.hdf5_file =
            IF hdf.last.work_path # PyNone
               /\ ~(Len(hdf.hdf5_input) > 0 /\ hdf.hdf5_input[1] = SEP)
            THEN AbsoluteUnder(hdf.last.work_path.v, hdf.hdf5_input)
            ELSE hdf.hdf5_input

\* a relative work directory and a relative input, loaded
C5_Witness ==
    /\ hdf.runs > 0
    /\ hdf.last.work_path = PyStr(<<"w">>)
    /\ hdf.hdf5_input = <<"m">>
    /\ hdf.last.hdf5_file = <<SEP, "c", SEP, "w", SEP, "m">>
    /\ hdf.last.molecule # <<>>

-----------------------------------------------------------------------------
(* Properties of VariationalForm                                           *)

FreshForm ==
    [k \in {"_num_parameters", "_num_qubits", "_bounds", "_support_parameterized_circuit"} |->
        CASE k = "_bounds" -> <<>>
          [] k = "_support_parameterized_circuit" -> FALSE
          [] OTHER -> 0]

\* C10: instantiating VariationalForm, or a subclass that does not override
\* both __init__ and construct_circuit, fails and yields no instance; only a
\* subclass that overrides both is instantiated, and when its constructor
\* runs the base constructor the instance starts with 0 parameters, 0 qubits,
\* no bounds and no support of parameterized circuits.
C10_AbstractNotInstantiable ==
    /\ [](\A i \in Forms :
             vf[i].state # "none" =>
                 /\ vf[i].cls[1].overrides # {"__init__", "construct_circuit"} =>
                       /\ vf[i].state = "raised"
                       /\ vf[i].exc.type = "TypeError"
                       /\ vf[i].obj = EmptyObj
                 /\ vf[i].state = "instance" =>
                       vf[i].cls[1].overrides = {"__init__", "construct_circuit"})
    /\ [][\A i \in Forms :
             (vf[i].state = "none" /\ vf'[i].state = "instance" /\ vf'[i].cls[1].calls_super)
             => vf'[i].obj = FreshForm]_vars

\* VariationalForm itself was refused and a complete subclass instantiated
C10_Witness ==
    /\ vf[1].state = "raised"
    /\ vf[1].cls[1].overrides = {}
    /\ vf[2].state = "instance"
    /\ vf[2].cls[1].calls_super
    /\ vf[2].obj = FreshForm

====
